---- MODULE Spec2Model ----
(***************************************************************************)
(* MAS Coordinator: routing-and-synthesis pipeline (task/agent.py) and the *)
(* stateful UMS agent gateway (task/coordination/ums_agent.py).            *)
(*                                                                         *)
(* Text is a sequence of tokens, so that concatenation is \o and the empty *)
(* string is << >>.  An Optional[str] is a set with at most one element:   *)
(* None is {} and a present value t is {t}.                                *)
(***************************************************************************)
EXTENDS Integers, Sequences, FiniteSets, TLC

VARIABLES
    messages,             \* request.messages: the history of the request
    pc,                   \* position of the run
    error,                \* exception that left the run, "none" otherwise
    classifier_content,   \* content of the classifier's answer, {} before it
    coordination_request, \* the classifier's decision
    invoked,              \* gateways whose response() was called, in order
    stages,               \* the two log surfaces of the run
    choice_content,       \* text appended with choice.append_content
    choice_state,         \* value given to choice.set_state, {} when not called
    calls,                \* external calls issued so far, in order
    conversation_id,      \* local conversation_id of UMSAgentGateway.response
    user_content,         \* local user_content of UMSAgentGateway.response
    stream,               \* the lines of the chat response, in order
    line_no,              \* number of lines response.aiter_lines() delivered
    accumulated_content,  \* local accumulated_content of __call_ums_agent
    agent_message,        \* content of the Message the gateway returned
    llm_messages,         \* messages list of the last model call prepared
    chunks,               \* the chunks of the synthesis stream, in order
    chunk_no,             \* number of chunks the stream delivered
    content,              \* local content of __final_response
    final_message,        \* content of the Message handle_request returned
    http_log,             \* answers of the UMS agent to this run's requests
    turn_log              \* the earlier runs of the conversation, in order

vars == <<messages, pc, error, classifier_content, coordination_request,
          invoked, stages, choice_content, choice_state, calls, conversation_id, user_content, stream, line_no,
          accumulated_content, agent_message, llm_messages, chunks, chunk_no,
          content, final_message, http_log, turn_log>>

-----------------------------------------------------------------------------
(* Bounds *)

MaxLines == 3

MaxHistory == 2

MaxRunHistory == 2

MaxRunLines == 2

MaxChunks == 2

MaxTurns == 3

-----------------------------------------------------------------------------
(* Optional values and text *)

None == {}

Some(t) == {t}

\* Python: value or ""
OrEmpty(opt) == IF opt = None THEN << >> ELSE CHOOSE t \in opt : TRUE

Hel == <<"H", "e", "l">>

lo == <<"l", "o">>

-----------------------------------------------------------------------------
(* Log surfaces *)

StageNames == {"coordination", "agent"}

NoStage == [status |-> "unopened", opens |-> 0, closes |-> 0, content |-> << >>]

OpenedStage == [status |-> "open", opens |-> 1, closes |-> 0, content |-> << >>]

\* StageProcessor.open_stage(choice, name)
open_stage(st, name) ==
    [st EXCEPT ![name] = [@ EXCEPT !.status = "open", !.opens = @ + 1]]

\* StageProcessor.close_stage_safely(stage)
close_stage_safely(st, name) ==
    [st EXCEPT ![name] = [@ EXCEPT !.status = "closed", !.closes = @ + 1]]

\* stage.append_content(text)
append_content(st, name, text) ==
    [st EXCEPT ![name] = [@ EXCEPT !.content = @ \o text]]

-----------------------------------------------------------------------------
(* Lines of the chat stream.                                               *)
(* A line is `prefix` copies of "data: " followed by a body.  The body is  *)
(* the empty text, the text [DONE], a text that is not JSON, or a JSON     *)
(* text, whose decoded value is described field by field:                  *)
(*   type     the Python type json.loads returns                           *)
(*   member   the result of  "choices" in value  (where it is defined)     *)
(*   choices  the value under the key "choices"                            *)
(*   first    the value choices[0]                                         *)
(*   delta    the value under the key "delta" of choices[0]                *)
(*   content  the value under the key "content" of the delta               *)
(*   text     the text of a str content                                    *)
(***************************************************************************)

NoValue ==
    [type |-> "none", member |-> FALSE, choices |-> "none", first |-> "none",
     delta |-> "none", content |-> "none", text |-> << >>]

\* JSON null, true, 5: "choices" in value is a TypeError
JScalar(t) == [NoValue EXCEPT !.type = t]

\* a JSON string or array; m: whether "choices" in value
JContainer(t, m) == [NoValue EXCEPT !.type = t, !.member = m]

\* {"conversation_id": "abc"}
JMeta == [NoValue EXCEPT !.type = "dict"]

\* {"choices": null}, {"choices": []}
JChoices(c) == [NoValue EXCEPT !.type = "dict", !.member = TRUE, !.choices = c]

\* {"choices": ["x"]}
JFirst(f) == [JChoices("list") EXCEPT !.first = f]

\* {"choices": [{}]}, {"choices": [{"delta": null}]}
JDelta(d) == [JFirst("dict") EXCEPT !.delta = d]

\* {"choices": [{"delta": {}}]}, ... {"delta": {"content": null}}, "", 5
JContent(c) == [JDelta("dict") EXCEPT !.content = c]

\* {"choices": [{"delta": {"content": "Hel"}}]}
JText(t) == [JContent("str") EXCEPT !.text = t]

Line(p, b, v) == [prefix |-> p, body |-> b, value |-> v]

Blank == Line(0, "empty", NoValue)

Done(p) == Line(p, "[DONE]", NoValue)

Garbage(p) == Line(p, "text", NoValue)

Json(p, v) == Line(p, "json", v)

\* lines a well-formed peer sends, and the scenario of the trailing garbage
PlainLines ==
    { Blank, Done(1), Garbage(0), Json(1, JMeta),
      Json(1, JText(Hel)), Json(1, JText(lo)) }

\* lines that differ in framing: bare, prefixed twice, prefix only
FramingLines ==
    { Done(0), Done(2), Line(1, "empty", NoValue), Garbage(1),
      Json(0, JText(Hel)), Json(2, JText(lo)) }

\* JSON lines that are not content fragments
ShapeLines ==
    { Json(1, JScalar("NoneType")), Json(1, JScalar("int")),
      Json(1, JContainer("str", FALSE)), Json(1, JContainer("str", TRUE)),
      Json(1, JContainer("list", FALSE)), Json(1, JContainer("list", TRUE)),
      Json(1, JChoices("NoneType")), Json(1, JChoices("empty")),
      Json(1, JFirst("str")),
      Json(1, JDelta("absent")), Json(1, JDelta("NoneType")),
      Json(1, JContent("absent")), Json(1, JContent("NoneType")),
      Json(1, JContent("empty")), Json(1, JContent("int")) }

Lines == PlainLines \cup FramingLines \cup ShapeLines

-----------------------------------------------------------------------------
(* UMSAgentGateway.__call_ums_agent: the loop over response.aiter_lines() *)

\* if not line
IsEmptyLine(line) == line.prefix = 0 /\ line.body = "empty"

\* if line.startswith("data: "): line = line[6:]
StripPrefix(line) ==
    IF line.prefix > 0 THEN [line EXCEPT !.prefix = @ - 1] ELSE line

\* line == "[DONE]"
IsDone(line) == line.prefix = 0 /\ line.body = "[DONE]"

\* json.loads(line) returns a value; otherwise it raises JSONDecodeError
JsonLoadsOk(line) == line.prefix = 0 /\ line.body = "json"

Continue == [kind |-> "continue", text |-> << >>, exc |-> "none"]

Break == [kind |-> "break", text |-> << >>, exc |-> "none"]

Raise(e) == [kind |-> "raise", text |-> << >>, exc |-> e]

Content(t) == [kind |-> "content", text |-> t, exc |-> "none"]

\* the body of the try block, for the decoded value v
ChunkOutcome(v) ==
    IF v.type \in {"NoneType", "int"} THEN Raise("TypeError")
    ELSE IF ~v.member THEN Continue
    ELSE IF v.type # "dict" THEN Raise("TypeError")
    ELSE IF v.choices = "NoneType" THEN Raise("TypeError")
    ELSE IF v.choices = "empty" THEN Raise("IndexError")
    ELSE IF v.first # "dict" THEN Raise("AttributeError")
    ELSE IF v.delta = "absent" THEN Continue
    ELSE IF v.delta # "dict" THEN Raise("AttributeError")
    ELSE IF v.content \in {"absent", "NoneType", "empty"} THEN Continue
    ELSE IF v.content # "str" THEN Raise("TypeError")
    ELSE Content(v.text)

\* variant: only lines that start with "data: " are parsed
LineOutcomePrefixRequired(line) ==
    IF line.prefix = 0 THEN Continue
    ELSE LET stripped == StripPrefix(line) IN
         IF IsDone(stripped) THEN Break
         ELSE IF ~JsonLoadsOk(stripped) THEN Continue
         ELSE ChunkOutcome(stripped.value)

\* variant: the sentinel is compared before the prefix is removed
LineOutcomeDoneBeforeStrip(line) ==
    IF IsEmptyLine(line) THEN Continue
    ELSE IF IsDone(line) THEN Break
    ELSE LET stripped == StripPrefix(line) IN
         IF ~JsonLoadsOk(stripped) THEN Continue
         ELSE ChunkOutcome(stripped.value)

\* variant: JSONDecodeError is not caught
LineOutcomeDecodeErrorRaised(line) ==
    IF IsEmptyLine(line) THEN Continue
    ELSE LET stripped == StripPrefix(line) IN
         IF IsDone(stripped) THEN Break
         ELSE IF ~JsonLoadsOk(stripped) THEN Raise("JSONDecodeError")
         ELSE ChunkOutcome(stripped.value)

\* one iteration of the loop body, for the line read
LineOutcome(line) ==
    IF IsEmptyLine(line) THEN Continue
    ELSE LET stripped == StripPrefix(line) IN
         IF IsDone(stripped) THEN Break
         ELSE IF ~JsonLoadsOk(stripped) THEN Continue
         ELSE ChunkOutcome(stripped.value)

\* variant: the fragment is accumulated but not appended to the stage
ReadLineBuffered ==
    /\ pc = "chat_stream"
    /\ line_no < Len(stream)
    /\ LET out == LineOutcome(stream[line_no + 1]) IN
         /\ line_no' = line_no + 1
         /\ accumulated_content' = accumulated_content \o out.text
         /\ pc' = CASE out.kind = "break" -> "chat_done"
                    [] out.kind = "raise" -> "aborted"
                    [] OTHER -> "chat_stream"
         /\ error' = out.exc
    /\ UNCHANGED <<messages, classifier_content, coordination_request,
                   invoked, stages, choice_content, choice_state, calls,
                   conversation_id, user_content, stream, agent_message,
                   llm_messages, chunks, chunk_no, content, final_message,
                   http_log, turn_log>>

\* aiter_lines() delivers the next line and the loop body runs on it
ReadLine ==
    /\ pc = "chat_stream"
    /\ line_no < Len(stream)
    /\ LET out == LineOutcome(stream[line_no + 1]) IN
         /\ line_no' = line_no + 1
         /\ accumulated_content' = accumulated_content \o out.text
         /\ stages' = append_content(stages, "agent", out.text)
         /\ pc' = CASE out.kind = "break" -> "chat_done"
                    [] out.kind = "raise" -> "aborted"
                    [] OTHER -> "chat_stream"
         /\ error' = out.exc
    /\ UNCHANGED <<messages, classifier_content, coordination_request,
                   invoked, choice_content, choice_state, calls,
                   conversation_id, user_content, stream, agent_message,
                   llm_messages, chunks, chunk_no, content, final_message,
                   http_log, turn_log>>

\* aiter_lines() is exhausted: the loop ends without a [DONE] line
EndOfStream ==
    /\ pc = "chat_stream"
    /\ line_no = Len(stream)
    /\ pc' = "chat_done"
    /\ UNCHANGED <<messages, error, classifier_content,
                   coordination_request, invoked, stages, choice_content,
                   choice_state, calls, conversation_id, user_content,
                   stream, line_no, accumulated_content, agent_message,
                   llm_messages, chunks, chunk_no, content, final_message,
                   http_log, turn_log>>

\* aiter_lines() raises: the connection broke or the 120 s timeout passed
StreamFailure ==
    /\ pc = "chat_stream"
    /\ pc' = "aborted"
    /\ error' = "httpx.HTTPError"
    /\ http_log' = [http_log EXCEPT ![Len(http_log)].status = "broken"]
    /\ UNCHANGED <<messages, classifier_content, coordination_request,
                   invoked, stages, choice_content, choice_state, calls,
                   conversation_id, user_content, stream, line_no,
                   accumulated_content, agent_message, llm_messages, chunks,
                   chunk_no, content, final_message, turn_log>>

-----------------------------------------------------------------------------
(* Messages of the request history (aidial_sdk Message).                   *)
(*   custom_content  whether the custom_content field is set               *)
(*   attachments     whether custom_content.attachments is set             *)
(*   state           custom_content.state: "None", the empty mapping "{}", *)
(*                   a mapping without the tracked key ("other"), or the   *)
(*                   id stored under the key ums_conversation_id           *)
(***************************************************************************)

Roles == {"system", "user", "assistant"}

ConversationIds == {"c1", "c2"}

\* the ids the UMS agent gives to the conversations it creates, in order
NewConversationIds == <<"c3", "c4", "c5", "c6", "c7">>

Message(r, c, cc, att, st) ==
    [role |-> r, content |-> c, custom_content |-> cc, attachments |-> att,
     state |-> st]

Plain(r, c) == Message(r, c, FALSE, FALSE, "None")

WithAttachments(r, c) == Message(r, c, TRUE, TRUE, "None")

WithState(r, c, st) == Message(r, c, TRUE, FALSE, st)

hi == <<"hi">>

Contents == {None, Some(hi)}

AllMessages ==
    { Plain(r, c) : r \in Roles, c \in Contents }
    \cup { WithAttachments(r, c) : r \in Roles, c \in Contents }
    \cup { WithState(r, c, st) : r \in Roles, c \in Contents,
                                 st \in {"{}", "other"} \cup ConversationIds }

RunMessages ==
    { Plain("user", Some(hi)), WithAttachments("user", None),
      WithState("assistant", Some(<<"ok">>), "other"),
      WithState("assistant", Some(<<"ok">>), "c1"),
      WithState("assistant", Some(<<"ok">>), "c2") }

SeqsUpTo(S, n) == UNION { [1..k -> S] : k \in 0..n }

-----------------------------------------------------------------------------
(* MASCoordinator.__prepare_messages *)

COORDINATION_REQUEST_SYSTEM_PROMPT == <<"COORDINATION_REQUEST_SYSTEM_PROMPT">>

FINAL_RESPONSE_SYSTEM_PROMPT == <<"FINAL_RESPONSE_SYSTEM_PROMPT">>

\* {"role": "system", "content": system_prompt}
SystemEntry(system_prompt) == Plain("system", Some(system_prompt))

\* variant: every message is serialised with msg.dict(exclude_none=True)
EntryVerbatim(msg) == msg

\* the entry appended for one history message
Entry(msg) ==
    IF msg.role = "user" /\ msg.custom_content
    THEN Plain("user", Some(OrEmpty(msg.content)))
    ELSE msg

NotSystem(msg) == msg.role # "system"

\* variant: system messages of the history are left out
prepare_messages_one_system(msgs, system_prompt) ==
    LET kept == SelectSeq(msgs, NotSystem) IN
    <<SystemEntry(system_prompt)>> \o [i \in 1..Len(kept) |-> Entry(kept[i])]

prepare_messages(msgs, system_prompt) ==
    <<SystemEntry(system_prompt)>> \o [i \in 1..Len(msgs) |-> Entry(msgs[i])]

-----------------------------------------------------------------------------
(* UMSAgentGateway.__get_ums_conversation_id *)

_UMS_CONVERSATION_ID == "ums_conversation_id"

\* message.role == Role.ASSISTANT and message.custom_content and
\* state and _UMS_CONVERSATION_ID in state
CarriesId(msg) ==
    /\ msg.role = "assistant"
    /\ msg.custom_content
    /\ msg.state \notin {"None", "{}", "other"}

\* variant: only the last message of the history is examined
get_ums_conversation_id_last_only(msgs) ==
    IF msgs # << >> /\ CarriesId(msgs[Len(msgs)])
    THEN Some(msgs[Len(msgs)].state) ELSE None

get_ums_conversation_id(msgs) ==
    LET hits == { i \in 1..Len(msgs) : CarriesId(msgs[i]) } IN
    IF hits = {} THEN None
    ELSE Some(msgs[CHOOSE i \in hits : \A j \in hits : i <= j].state)

-----------------------------------------------------------------------------
(* The classifier's answer (task/models.py: CoordinationRequest, AgentName) *)

AgentNames == {"GPA", "UMS"}

Instructions == {None, Some(<< >>), Some(<<"be brief">>)}

NoRequest == [agent_name |-> "none", additional_instructions |-> None]

\* response.choices[0].message.content: json tells whether it is JSON text
ClassifierContent(j, a, i) ==
    [json |-> j, agent_name |-> a, additional_instructions |-> i]

ClassifierContents ==
    { ClassifierContent(TRUE, a, i) : a \in AgentNames, i \in Instructions }
    \cup { ClassifierContent(FALSE, "none", None),
           ClassifierContent(TRUE, "none", None),
           ClassifierContent(TRUE, "XYZ", Some(<<"be brief">>)) }

\* json.loads(content) returns
json_loads_ok(c) == c.json

\* CoordinationRequest.model_validate(data) returns
model_validate_ok(c) == c.agent_name \in AgentNames

Call(o, i) == [op |-> o, id |-> i]

-----------------------------------------------------------------------------
(* MASCoordinator.handle_request, from its start to the classifier call *)

HandleRequest ==
    /\ pc = "idle"
    /\ stages' = open_stage(stages, "coordination")
    /\ llm_messages' = prepare_messages(messages,
                                        COORDINATION_REQUEST_SYSTEM_PROMPT)
    /\ calls' = Append(calls, Call("classifier", None))
    /\ pc' = "classifier_call"
    /\ UNCHANGED <<messages, error, classifier_content,
                   coordination_request, invoked, choice_content,
                   choice_state, conversation_id, user_content, stream,
                   line_no, accumulated_content, agent_message, chunks,
                   chunk_no, content, final_message, http_log, turn_log>>

\* variant: a failed classifier call is issued once more
ClassifierFailsRetries ==
    /\ pc = "classifier_call"
    /\ Len(calls) < 2
    /\ calls' = Append(calls, Call("classifier", None))
    /\ UNCHANGED <<messages, pc, error, classifier_content,
                   coordination_request, invoked, stages, choice_content,
                   choice_state, conversation_id, user_content, stream,
                   line_no, accumulated_content, agent_message,
                   llm_messages, chunks, chunk_no, content, final_message,
                   http_log, turn_log>>

\* client.chat.completions.create raises
ClassifierFails ==
    /\ pc = "classifier_call"
    /\ pc' = "aborted"
    /\ error' = "APIError"
    /\ UNCHANGED <<messages, classifier_content, coordination_request,
                   invoked, stages, choice_content, choice_state, calls,
                   conversation_id, user_content, stream, line_no,
                   accumulated_content, agent_message, llm_messages, chunks,
                   chunk_no, content, final_message, http_log, turn_log>>

\* f"Routing to: **{agent_name}**\nInstructions: {instructions or 'None'}"
RoutingText(d) ==
    <<"Routing to: **", d.agent_name, "**\nInstructions: ">>
    \o (IF OrEmpty(d.additional_instructions) = << >> THEN <<"None">>
        ELSE OrEmpty(d.additional_instructions))

\* CoordinationRequest.model_validate(data)
Decision(c) ==
    [agent_name |-> c.agent_name,
     additional_instructions |-> c.additional_instructions]

\* variant: the stateful gateway is chosen only when instructions came along
gateway_for_with_instructions(d, msgs) ==
    IF d.agent_name = "UMS" /\ d.additional_instructions # None
    THEN "UMS" ELSE "GPA"

\* __handle_coordination_request: the gateway whose response() is awaited
gateway_for(d, msgs) == IF d.agent_name = "UMS" THEN "UMS" ELSE "GPA"

\* handle_request from the classifier's answer to the gateway's response()
Routed(c, d) ==
    /\ pc = "classifier_call"
    /\ classifier_content' = Some(c)
    /\ coordination_request' = d
    /\ invoked' = Append(invoked, gateway_for(d, messages))
    /\ stages' = open_stage(
                   close_stage_safely(
                     append_content(stages, "coordination", RoutingText(d)),
                     "coordination"),
                   "agent")

\* variant: an answer that cannot be parsed falls back to the GPA gateway
ClassifierInvalidFallsBack ==
    /\ \E c \in ClassifierContents :
         /\ ~(json_loads_ok(c) /\ model_validate_ok(c))
         /\ Routed(c, [agent_name |-> "GPA", additional_instructions |-> None])
    /\ calls' = Append(calls, Call("gpa", None))
    /\ pc' = "gpa_call"
    /\ UNCHANGED <<messages, error, choice_content, choice_state,
                   conversation_id, user_content, stream, line_no,
                   accumulated_content, agent_message, llm_messages, chunks,
                   chunk_no, content, final_message, http_log, turn_log>>

\* the classifier answers; json.loads(content) or
\* CoordinationRequest.model_validate(data) raises
ClassifierInvalid ==
    /\ pc = "classifier_call"
    /\ \E c \in ClassifierContents :
         /\ ~(json_loads_ok(c) /\ model_validate_ok(c))
         /\ classifier_content' = Some(c)
         /\ error' = IF ~json_loads_ok(c) THEN "JSONDecodeError"
                     ELSE "ValidationError"
    /\ pc' = "aborted"
    /\ UNCHANGED <<messages, coordination_request, invoked, stages,
                   choice_content, choice_state, calls, conversation_id,
                   user_content, stream, line_no, accumulated_content,
                   agent_message, llm_messages, chunks, chunk_no, content,
                   final_message, http_log, turn_log>>

\* variant: the block is appended whenever instructions are not None
ChatRequestIsNotNone(cid, instructions, callsNow) ==
    IF messages = << >>
    THEN /\ pc' = "aborted"
         /\ error' = "IndexError"
         /\ calls' = callsNow
         /\ user_content' = user_content
    ELSE LET last_message == messages[Len(messages)]
             base == OrEmpty(last_message.content)
         IN  /\ user_content' =
                  IF instructions # None
                  THEN base \o <<"\n\nAdditional context: ">>
                            \o OrEmpty(instructions)
                  ELSE base
             /\ calls' = Append(callsNow, Call("chat", cid))
             /\ pc' = "chat_open"
             /\ error' = error

\* UMSAgentGateway.response, steps 2 and 3 up to the client.stream request
ChatRequest(cid, instructions, callsNow) ==
    IF messages = << >>
    THEN /\ pc' = "aborted"
         /\ error' = "IndexError"
         /\ calls' = callsNow
         /\ user_content' = user_content
    ELSE LET last_message == messages[Len(messages)]
             base == OrEmpty(last_message.content)
         IN  /\ user_content' =
                  IF OrEmpty(instructions) # << >>
                  THEN base \o <<"\n\nAdditional context: ">>
                            \o OrEmpty(instructions)
                  ELSE base
             /\ calls' = Append(callsNow, Call("chat", cid))
             /\ pc' = "chat_open"
             /\ error' = error

\* variant: the UMS gateway creates a conversation for every request
RouteToUMSCreateAlways ==
    /\ \E c \in ClassifierContents :
         /\ json_loads_ok(c) /\ model_validate_ok(c)
         /\ gateway_for(Decision(c), messages) = "UMS"
         /\ Routed(c, Decision(c))
    /\ calls' = Append(calls, Call("create", None))
    /\ pc' = "create_call"
    /\ UNCHANGED <<messages, error, choice_content, choice_state,
                   conversation_id, user_content, stream, line_no,
                   accumulated_content, agent_message, llm_messages, chunks,
                   chunk_no, content, final_message, http_log, turn_log>>

\* the UMS gateway is chosen and the history holds no conversation id
RouteToUMSCreate ==
    /\ get_ums_conversation_id(messages) = None
    /\ \E c \in ClassifierContents :
         /\ json_loads_ok(c) /\ model_validate_ok(c)
         /\ gateway_for(Decision(c), messages) = "UMS"
         /\ Routed(c, Decision(c))
    /\ calls' = Append(calls, Call("create", None))
    /\ pc' = "create_call"
    /\ UNCHANGED <<messages, error, choice_content, choice_state,
                   conversation_id, user_content, stream, line_no,
                   accumulated_content, agent_message, llm_messages, chunks,
                   chunk_no, content, final_message, http_log, turn_log>>

\* variant: the id found in the history is given to choice.set_state again
RouteToUMSResumeWritesState ==
    /\ get_ums_conversation_id(messages) # None
    /\ \E c \in ClassifierContents :
         /\ json_loads_ok(c) /\ model_validate_ok(c)
         /\ gateway_for(Decision(c), messages) = "UMS"
         /\ Routed(c, Decision(c))
         /\ ChatRequest(get_ums_conversation_id(messages),
                        c.additional_instructions, calls)
    /\ conversation_id' = get_ums_conversation_id(messages)
    /\ choice_state' = get_ums_conversation_id(messages)
    /\ UNCHANGED <<messages, choice_content, stream, line_no,
                   accumulated_content, agent_message, llm_messages, chunks,
                   chunk_no, content, final_message, http_log, turn_log>>

\* the UMS gateway is chosen and the history holds a conversation id
RouteToUMSResume ==
    /\ get_ums_conversation_id(messages) # None
    /\ \E c \in ClassifierContents :
         /\ json_loads_ok(c) /\ model_validate_ok(c)
         /\ gateway_for(Decision(c), messages) = "UMS"
         /\ Routed(c, Decision(c))
         /\ ChatRequest(get_ums_conversation_id(messages),
                        c.additional_instructions, calls)
    /\ conversation_id' = get_ums_conversation_id(messages)
    /\ UNCHANGED <<messages, choice_content, choice_state, stream, line_no,
                   accumulated_content, agent_message, llm_messages, chunks,
                   chunk_no, content, final_message, http_log, turn_log>>

\* the GPA gateway is chosen
RouteToGPA ==
    /\ \E c \in ClassifierContents :
         /\ json_loads_ok(c) /\ model_validate_ok(c)
         /\ gateway_for(Decision(c), messages) = "GPA"
         /\ Routed(c, Decision(c))
    /\ calls' = Append(calls, Call("gpa", None))
    /\ pc' = "gpa_call"
    /\ UNCHANGED <<messages, error, choice_content, choice_state,
                   conversation_id, user_content, stream, line_no,
                   accumulated_content, agent_message, llm_messages, chunks,
                   chunk_no, content, final_message, http_log, turn_log>>

-----------------------------------------------------------------------------
(* UMSAgentGateway.__create_ums_conversation and the rest of response() *)

\* an answer of the UMS agent: the request and how its transport went
Http(o, s) == [op |-> o, status |-> s]

\* number of POST /conversations requests of the conversation so far
Posts == Len(SelectSeq(turn_log, LAMBDA t : t.posts > 0))
         + Len(SelectSeq(calls, LAMBDA c : c.op = "create"))

\* variant: the new id is not given to choice.set_state
CreateReturnsNoState ==
    /\ pc = "create_call"
    /\ LET id == NewConversationIds[Posts] IN
         /\ conversation_id' = Some(id)
         /\ ChatRequest(Some(id), coordination_request.additional_instructions,
                        calls)
    /\ http_log' = Append(http_log, Http("create", "2xx"))
    /\ UNCHANGED <<messages, classifier_content, coordination_request,
                   invoked, stages, choice_content, choice_state, stream,
                   line_no, accumulated_content, agent_message,
                   llm_messages, chunks, chunk_no, content, final_message,
                   turn_log>>

\* POST /conversations answers {"id": id}
CreateReturns ==
    /\ pc = "create_call"
    /\ LET id == NewConversationIds[Posts] IN
         /\ conversation_id' = Some(id)
         /\ choice_state' = Some(id)
         /\ ChatRequest(Some(id), coordination_request.additional_instructions,
                        calls)
    /\ http_log' = Append(http_log, Http("create", "2xx"))
    /\ UNCHANGED <<messages, classifier_content, coordination_request,
                   invoked, stages, choice_content, stream, line_no,
                   accumulated_content, agent_message, llm_messages, chunks,
                   chunk_no, content, final_message, turn_log>>

\* how POST /conversations fails: the request fails, raise_for_status()
\* raises, or the body of a 2xx answer is not JSON or has no "id"
CreateFailures ==
    { [status |-> "connect_error", exc |-> "httpx.HTTPError"],
      [status |-> "non_2xx", exc |-> "httpx.HTTPError"],
      [status |-> "2xx", exc |-> "JSONDecodeError"],
      [status |-> "2xx", exc |-> "KeyError"] }

CreateFails ==
    /\ pc = "create_call"
    /\ pc' = "aborted"
    /\ \E f \in CreateFailures :
         /\ error' = f.exc
         /\ http_log' = Append(http_log, Http("create", f.status))
    /\ UNCHANGED <<messages, classifier_content, coordination_request,
                   invoked, stages, choice_content, choice_state, calls,
                   conversation_id, user_content, stream, line_no,
                   accumulated_content, agent_message, llm_messages, chunks,
                   chunk_no, content, final_message, turn_log>>

\* the chat response arrives and raise_for_status() passes; its body is one
\* of the streams of S
ChatOpenedWith(S) ==
    /\ pc = "chat_open"
    /\ pc' = "chat_stream"
    /\ stream' \in S
    /\ line_no' = 0
    /\ http_log' = Append(http_log, Http("chat", "2xx"))
    /\ UNCHANGED <<messages, error, classifier_content,
                   coordination_request, invoked, stages, choice_content,
                   choice_state, calls, conversation_id, user_content,
                   accumulated_content, agent_message, llm_messages, chunks,
                   chunk_no, content, final_message, turn_log>>

\* variant: raise_for_status() is not called, the body of a non-2xx answer
\* is read like a stream
ChatFailsReadsBody(S) ==
    /\ pc = "chat_open"
    /\ pc' = "chat_stream"
    /\ stream' \in S
    /\ line_no' = 0
    /\ http_log' = Append(http_log, Http("chat", "non_2xx"))
    /\ UNCHANGED <<messages, error, classifier_content,
                   coordination_request, invoked, stages, choice_content,
                   choice_state, calls, conversation_id, user_content,
                   accumulated_content, agent_message, llm_messages, chunks,
                   chunk_no, content, final_message, turn_log>>

\* the chat request fails, or the answer is not 2xx and raise_for_status()
\* raises; the body of such an answer is one of the streams of S
ChatFailsWith(S) ==
    /\ pc = "chat_open"
    /\ pc' = "aborted"
    /\ error' = "httpx.HTTPError"
    /\ \/ /\ http_log' = Append(http_log, Http("chat", "connect_error"))
          /\ stream' = stream
       \/ /\ http_log' = Append(http_log, Http("chat", "non_2xx"))
          /\ stream' \in S
    /\ UNCHANGED <<messages, classifier_content, coordination_request,
                   invoked, stages, choice_content, choice_state, calls,
                   conversation_id, user_content, line_no,
                   accumulated_content, agent_message, llm_messages, chunks,
                   chunk_no, content, final_message, turn_log>>

-----------------------------------------------------------------------------
(* MASCoordinator.__final_response *)

\* the messages of the synthesis call: the last entry's content is replaced
augmented_messages(msgs, agent_content) ==
    LET prepared == prepare_messages(msgs, FINAL_RESPONSE_SYSTEM_PROMPT)
        n == Len(prepared)
        original_content == OrEmpty(prepared[n].content)
    IN  [prepared EXCEPT ![n].content =
            Some(<<"## Original User Request\n">> \o original_content
                 \o <<"\n\n## Agent Response\n">> \o agent_content)]

\* handle_request from the gateway's return to the synthesis call
Delegated(agent_content) ==
    /\ agent_message' = Some(agent_content)
    /\ llm_messages' = augmented_messages(messages, agent_content)
    /\ calls' = Append(calls, Call("synthesis", None))
    /\ pc' = "synthesis_call"

\* __call_ums_agent returns and response() returns the Message
UMSReturns ==
    /\ pc = "chat_done"
    /\ stages' = close_stage_safely(stages, "agent")
    /\ Delegated(accumulated_content)
    /\ UNCHANGED <<messages, error, classifier_content,
                   coordination_request, invoked, choice_content,
                   choice_state, conversation_id, user_content, stream,
                   line_no, accumulated_content, chunks, chunk_no, content,
                   final_message, http_log, turn_log>>

GPAAnswers == {<< >>, <<"G">>}

\* GPAGateway.response streams its answer to the stage and returns it
GPAReturns ==
    /\ pc = "gpa_call"
    /\ \E answer \in GPAAnswers :
         /\ stages' = close_stage_safely(
                        append_content(stages, "agent", answer), "agent")
         /\ Delegated(answer)
    /\ UNCHANGED <<messages, error, classifier_content,
                   coordination_request, invoked, choice_content,
                   choice_state, conversation_id, user_content, stream,
                   line_no, accumulated_content, chunks, chunk_no, content,
                   final_message, http_log, turn_log>>

\* GPAGateway.response raises
GPAFails ==
    /\ pc = "gpa_call"
    /\ pc' = "aborted"
    /\ error' = "APIError"
    /\ UNCHANGED <<messages, classifier_content, coordination_request,
                   invoked, stages, choice_content, choice_state, calls,
                   conversation_id, user_content, stream, line_no,
                   accumulated_content, agent_message, llm_messages, chunks,
                   chunk_no, content, final_message, http_log, turn_log>>

\* client.chat.completions.create(stream=True) returns the stream, which
\* is one of the chunk sequences of S
SynthesisOpenedWith(S) ==
    /\ pc = "synthesis_call"
    /\ pc' = "synthesis_stream"
    /\ chunks' \in S
    /\ chunk_no' = 0
    /\ UNCHANGED <<messages, error, classifier_content,
                   coordination_request, invoked, stages, choice_content,
                   choice_state, calls, conversation_id, user_content,
                   stream, line_no, accumulated_content, agent_message,
                   llm_messages, content, final_message, http_log, turn_log>>

\* the synthesis call or its stream raises
SynthesisFails ==
    /\ pc \in {"synthesis_call", "synthesis_stream"}
    /\ pc' = "aborted"
    /\ error' = "APIError"
    /\ UNCHANGED <<messages, classifier_content, coordination_request,
                   invoked, stages, choice_content, choice_state, calls,
                   conversation_id, user_content, stream, line_no,
                   accumulated_content, agent_message, llm_messages, chunks,
                   chunk_no, content, final_message, http_log, turn_log>>

\* a chunk: whether chunk.choices is non-empty, and choices[0].delta.content
Chunk(c, t) == [choices |-> c, content |-> t]

Chunks ==
    { Chunk(FALSE, None), Chunk(TRUE, None), Chunk(TRUE, Some(<< >>)),
      Chunk(TRUE, Some(<<"A">>)), Chunk(TRUE, Some(<<"B">>)) }

\* chunk.choices and chunk.choices[0].delta.content
ChunkContent(chunk) ==
    IF chunk.choices /\ OrEmpty(chunk.content) # << >>
    THEN OrEmpty(chunk.content) ELSE << >>

\* variant: the fragment is put in front of the accumulated content
ReadChunkPrepends ==
    /\ pc = "synthesis_stream"
    /\ chunk_no < Len(chunks)
    /\ LET chunk_content == ChunkContent(chunks[chunk_no + 1]) IN
         /\ chunk_no' = chunk_no + 1
         /\ content' = chunk_content \o content
         /\ choice_content' = choice_content \o chunk_content
    /\ UNCHANGED <<messages, pc, error, classifier_content,
                   coordination_request, invoked, stages, choice_state,
                   calls, conversation_id, user_content, stream, line_no,
                   accumulated_content, agent_message, llm_messages, chunks,
                   final_message, http_log, turn_log>>

\* variant: the fragment is appended to the agent's log surface
ReadChunkToStage ==
    /\ pc = "synthesis_stream"
    /\ chunk_no < Len(chunks)
    /\ LET chunk_content == ChunkContent(chunks[chunk_no + 1]) IN
         /\ chunk_no' = chunk_no + 1
         /\ content' = content \o chunk_content
         /\ stages' = append_content(stages, "agent", chunk_content)
    /\ UNCHANGED <<messages, pc, error, classifier_content,
                   coordination_request, invoked, choice_content,
                   choice_state, calls, conversation_id, user_content,
                   stream, line_no, accumulated_content, agent_message,
                   llm_messages, chunks, final_message, http_log, turn_log>>

\* one iteration of  async for chunk in stream
ReadChunk ==
    /\ pc = "synthesis_stream"
    /\ chunk_no < Len(chunks)
    /\ LET chunk_content == ChunkContent(chunks[chunk_no + 1]) IN
         /\ chunk_no' = chunk_no + 1
         /\ content' = content \o chunk_content
         /\ choice_content' = choice_content \o chunk_content
    /\ UNCHANGED <<messages, pc, error, classifier_content,
                   coordination_request, invoked, stages, choice_state,
                   calls, conversation_id, user_content, stream, line_no,
                   accumulated_content, agent_message, llm_messages, chunks,
                   final_message, http_log, turn_log>>

\* the stream ends: Message(role=Role.ASSISTANT, content=content) is returned
SynthesisEnds ==
    /\ pc = "synthesis_stream"
    /\ chunk_no = Len(chunks)
    /\ pc' = "done"
    /\ final_message' = Some(content)
    /\ UNCHANGED <<messages, error, classifier_content,
                   coordination_request, invoked, stages, choice_content,
                   choice_state, calls, conversation_id, user_content,
                   stream, line_no, accumulated_content, agent_message,
                   llm_messages, chunks, chunk_no, content, http_log,
                   turn_log>>

-----------------------------------------------------------------------------
(* Specifications *)

\* lines and chunks of the streams of a whole run
RunLines == { Done(1), Json(1, JText(Hel)), Json(1, JText(lo)) }

RunChunks == { Chunk(FALSE, None), Chunk(TRUE, Some(<<"A">>)) }

InitRun(msgs) ==
    /\ messages = msgs
    /\ pc = "idle"
    /\ error = "none"
    /\ classifier_content = None
    /\ coordination_request = NoRequest
    /\ invoked = << >>
    /\ stages = [n \in StageNames |-> NoStage]
    /\ choice_content = << >>
    /\ choice_state = None
    /\ calls = << >>
    /\ conversation_id = None
    /\ user_content = << >>
    /\ stream = << >>
    /\ line_no = 0
    /\ accumulated_content = << >>
    /\ agent_message = None
    /\ llm_messages = << >>
    /\ chunks = << >>
    /\ chunk_no = 0
    /\ content = << >>
    /\ final_message = None
    /\ http_log = << >>
    /\ turn_log = << >>

\* a run of handle_request on any history
Init == \E msgs \in SeqsUpTo(RunMessages, MaxRunHistory) : InitRun(msgs)

ChatOpened == ChatOpenedWith(SeqsUpTo(RunLines, MaxRunLines))

ChatFails == ChatFailsWith(SeqsUpTo(RunLines, MaxRunLines))

SynthesisOpened == SynthesisOpenedWith(SeqsUpTo(RunChunks, MaxChunks))

Next ==
    \/ HandleRequest
    \/ ClassifierFails
    \/ ClassifierInvalid
    \/ RouteToUMSCreate
    \/ RouteToUMSResume
    \/ RouteToGPA
    \/ CreateReturns
    \/ CreateFails
    \/ ChatOpened
    \/ ChatFails
    \/ ReadLine
    \/ EndOfStream
    \/ StreamFailure
    \/ UMSReturns
    \/ GPAReturns
    \/ GPAFails
    \/ SynthesisOpened
    \/ SynthesisFails
    \/ ReadChunk
    \/ SynthesisEnds

Spec == Init /\ [][Next]_vars

\* __call_ums_agent on any stream: the run on [user: hi] that was routed to
\* UMS without instructions and created conversation c3, at the chat request
InitStream ==
    /\ messages = <<Plain("user", Some(hi))>>
    /\ pc = "chat_open"
    /\ error = "none"
    /\ classifier_content = Some(ClassifierContent(TRUE, "UMS", None))
    /\ coordination_request = Decision(ClassifierContent(TRUE, "UMS", None))
    /\ invoked = <<"UMS">>
    /\ stages = [coordination |->
                   [status |-> "closed", opens |-> 1, closes |-> 1,
                    content |-> RoutingText(coordination_request)],
                 agent |-> OpenedStage]
    /\ choice_content = << >>
    /\ choice_state = Some("c3")
    /\ calls = <<Call("classifier", None), Call("create", None),
                 Call("chat", Some("c3"))>>
    /\ conversation_id = Some("c3")
    /\ user_content = hi
    /\ stream = << >>
    /\ line_no = 0
    /\ accumulated_content = << >>
    /\ agent_message = None
    /\ llm_messages = prepare_messages(messages,
                                       COORDINATION_REQUEST_SYSTEM_PROMPT)
    /\ chunks = << >>
    /\ chunk_no = 0
    /\ content = << >>
    /\ final_message = None
    /\ http_log = <<Http("create", "2xx")>>
    /\ turn_log = << >>

ChatOpenedAny == ChatOpenedWith(SeqsUpTo(Lines, MaxLines))

NextStream ==
    \/ ChatOpenedAny
    \/ ChatFails
    \/ ReadLine
    \/ EndOfStream
    \/ StreamFailure

SpecStream == InitStream /\ [][NextStream]_vars

\* __final_response on any chunk sequence: the run of InitStream after the
\* stream  data: {"choices":[{"delta":{"content":"Hel"}}]}, data: [DONE]
\* at the synthesis call
InitSynthesis ==
    /\ messages = <<Plain("user", Some(hi))>>
    /\ pc = "synthesis_call"
    /\ error = "none"
    /\ classifier_content = Some(ClassifierContent(TRUE, "UMS", None))
    /\ coordination_request = Decision(ClassifierContent(TRUE, "UMS", None))
    /\ invoked = <<"UMS">>
    /\ stages = [coordination |->
                   [status |-> "closed", opens |-> 1, closes |-> 1,
                    content |-> RoutingText(coordination_request)],
                 agent |->
                   [status |-> "closed", opens |-> 1, closes |-> 1,
                    content |-> Hel]]
    /\ choice_content = << >>
    /\ choice_state = Some("c3")
    /\ calls = <<Call("classifier", None), Call("create", None),
                 Call("chat", Some("c3")), Call("synthesis", None)>>
    /\ conversation_id = Some("c3")
    /\ user_content = hi
    /\ stream = <<Json(1, JText(Hel)), Done(1)>>
    /\ line_no = 2
    /\ accumulated_content = Hel
    /\ agent_message = Some(Hel)
    /\ llm_messages = augmented_messages(messages, Hel)
    /\ chunks = << >>
    /\ chunk_no = 0
    /\ content = << >>
    /\ final_message = None
    /\ http_log = <<Http("create", "2xx"), Http("chat", "2xx")>>
    /\ turn_log = << >>

SynthesisOpenedAny == SynthesisOpenedWith(SeqsUpTo(Chunks, MaxChunks))

NextSynthesis ==
    \/ SynthesisOpenedAny
    \/ SynthesisFails
    \/ ReadChunk
    \/ SynthesisEnds

SpecSynthesis == InitSynthesis /\ [][NextSynthesis]_vars

\* the turns of one conversation: chat_completion is called once per
\* request, and each request holds the history the caller kept so far

\* the assistant message the caller got: the text appended to the choice,
\* with the state given to choice.set_state
Reply ==
    Message("assistant", Some(choice_content), choice_state # None, FALSE,
            IF choice_state = None THEN "None"
            ELSE CHOOSE id \in choice_state : TRUE)

\* the run ended; the caller appends the reply and the next user message to
\* the history, or, after an error, may also send the same history again
NextTurn ==
    /\ pc \in {"done", "aborted"}
    /\ Len(turn_log) + 1 < MaxTurns
    /\ \E kept \in (IF pc = "done" THEN {TRUE} ELSE BOOLEAN) :
         /\ turn_log' = Append(turn_log,
                [posts |-> Len(SelectSeq(calls, LAMBDA c : c.op = "create")),
                 ended |-> pc, state |-> choice_state, kept |-> kept])
         /\ messages' = IF kept
                        THEN messages \o <<Reply, Plain("user", Some(hi))>>
                        ELSE messages
    /\ pc' = "idle"
    /\ error' = "none"
    /\ classifier_content' = None
    /\ coordination_request' = NoRequest
    /\ invoked' = << >>
    /\ stages' = [n \in StageNames |-> NoStage]
    /\ choice_content' = << >>
    /\ choice_state' = None
    /\ calls' = << >>
    /\ conversation_id' = None
    /\ user_content' = << >>
    /\ stream' = << >>
    /\ line_no' = 0
    /\ accumulated_content' = << >>
    /\ agent_message' = None
    /\ llm_messages' = << >>
    /\ chunks' = << >>
    /\ chunk_no' = 0
    /\ content' = << >>
    /\ final_message' = None
    /\ http_log' = << >>

\* the first request of a conversation
InitTurns == InitRun(<<Plain("user", Some(hi))>>)

ChatOpenedTurn == ChatOpenedWith({ <<Json(1, JText(Hel))>> })

ChatFailsTurn == ChatFailsWith({ << >> })

SynthesisOpenedTurn == SynthesisOpenedWith({ <<Chunk(TRUE, Some(<<"A">>))>> })

NextTurns ==
    \/ HandleRequest
    \/ ClassifierFails
    \/ ClassifierInvalid
    \/ RouteToUMSCreate
    \/ RouteToUMSResume
    \/ RouteToGPA
    \/ CreateReturns
    \/ CreateFails
    \/ ChatOpenedTurn
    \/ ChatFailsTurn
    \/ ReadLine
    \/ EndOfStream
    \/ StreamFailure
    \/ UMSReturns
    \/ GPAReturns
    \/ GPAFails
    \/ SynthesisOpenedTurn
    \/ SynthesisFails
    \/ ReadChunk
    \/ SynthesisEnds
    \/ NextTurn

SpecTurns == InitTurns /\ [][NextTurns]_vars

\* __prepare_messages on any history, with either prompt
InitAdapter == \E msgs \in SeqsUpTo(AllMessages, MaxHistory) : InitRun(msgs)

\* messages = self.__prepare_messages(request, FINAL_RESPONSE_SYSTEM_PROMPT)
PrepareFinal ==
    /\ pc = "idle"
    /\ llm_messages' = prepare_messages(messages, FINAL_RESPONSE_SYSTEM_PROMPT)
    /\ pc' = "final_prepared"
    /\ UNCHANGED <<messages, error, classifier_content,
                   coordination_request, invoked, stages, choice_content,
                   choice_state, calls, conversation_id, user_content,
                   stream, line_no, accumulated_content, agent_message,
                   chunks, chunk_no, content, final_message, http_log,
                   turn_log>>

\* __final_response from the prepared list to the synthesis call: the
\* content of messages[-1] is replaced, for an agent answer of AgentAnswers
AgentAnswers == {<< >>, Hel}

Augment ==
    /\ pc = "final_prepared"
    /\ \E answer \in AgentAnswers :
         /\ agent_message' = Some(answer)
         /\ llm_messages' = augmented_messages(messages, answer)
    /\ pc' = "augmented"
    /\ UNCHANGED <<messages, error, classifier_content,
                   coordination_request, invoked, stages, choice_content,
                   choice_state, calls, conversation_id, user_content,
                   stream, line_no, accumulated_content, chunks, chunk_no,
                   content, final_message, http_log, turn_log>>

NextAdapter ==
    \/ HandleRequest
    \/ PrepareFinal
    \/ Augment

SpecAdapter == InitAdapter /\ [][NextAdapter]_vars

-----------------------------------------------------------------------------
(* Properties of a run of handle_request (Spec) *)

CallsOf(o) == { i \in 1..Len(calls) : calls[i].op = o }

Ended == pc \in {"done", "aborted"}

\* C1: in every run of handle_request that reaches delegation exactly one of
\* the two gateways is invoked, exactly once, and it is the one that
\* agent_name names (UMS the stateful gateway, GPA the stateless one),
\* whatever the history and the additional instructions; before delegation
\* no gateway is invoked.
C1_OneGatewayByAgentName ==
    /\ coordination_request = NoRequest =>
         /\ invoked = << >>
         /\ CallsOf("gpa") \cup CallsOf("create") \cup CallsOf("chat") = {}
    /\ coordination_request.agent_name = "UMS" =>
         /\ invoked = <<"UMS">>
         /\ CallsOf("gpa") = {}
    /\ coordination_request.agent_name = "GPA" =>
         /\ invoked = <<"GPA">>
         /\ Cardinality(CallsOf("gpa")) = 1
         /\ CallsOf("create") \cup CallsOf("chat") = {}

\* a finished run that was routed to UMS with instructions, on a history
\* that holds an earlier conversation
C1_Witness ==
    /\ pc = "done"
    /\ invoked = <<"UMS">>
    /\ coordination_request.additional_instructions = Some(<<"be brief">>)
    /\ Len(messages) = 2
    /\ messages[1].state = "c1"

\* an assistant message of the history whose persisted state holds the key
HoldsSession(msg) ==
    /\ msg.role = "assistant"
    /\ msg.custom_content
    /\ msg.state \in ConversationIds

SessionIndexes == { i \in 1..Len(messages) : HoldsSession(messages[i]) }

\* C2: in a run of the UMS gateway on a history without a persisted
\* conversation id exactly one POST /conversations call is made, and it has
\* returned before the chat call is issued; on a history with one, no
\* creation call is made and the one chat call goes to an id of the history.
C2_SessionCreatedOrReused ==
    invoked = <<"UMS">> =>
        IF SessionIndexes = {}
        THEN /\ Cardinality(CallsOf("create")) = 1
             /\ \A j \in CallsOf("chat") :
                  /\ \A i \in CallsOf("create") : i < j
                  /\ conversation_id \in { Some(NewConversationIds[k]) :
                                          k \in DOMAIN NewConversationIds }
                  /\ calls[j].id = conversation_id
                  /\ choice_state = conversation_id
        ELSE /\ CallsOf("create") = {}
             /\ Cardinality(CallsOf("chat")) = 1
             /\ \A j \in CallsOf("chat") :
                  \E i \in SessionIndexes : calls[j].id = Some(messages[i].state)

\* a first turn: the session was created and the chat stream is open
C2_Witness ==
    /\ pc = "chat_stream"
    /\ SessionIndexes = {}
    /\ Len(messages) = 2
    /\ calls = <<Call("classifier", None), Call("create", None),
                 Call("chat", Some("c3"))>>

\* C4: every log surface opened during a run is closed exactly once when the
\* run ends, whether it returns or an error propagates.
C4_SurfacesClosedAtEnd ==
    Ended => \A n \in StageNames :
                 /\ stages[n].status # "open"
                 /\ stages[n].closes = stages[n].opens

\* C5: when several assistant messages of the history hold a conversation
\* id, the UMS gateway resolves the id of the last of them.
C5_MostRecentSessionWins ==
    (invoked = <<"UMS">> /\ SessionIndexes # {}) =>
        conversation_id =
            Some(messages[CHOOSE i \in SessionIndexes :
                              \A j \in SessionIndexes : j <= i].state)

\* C6: when the classifier's answer is not JSON or does not validate, the
\* run aborts at once: no gateway, no agent surface, no call besides the one
\* classifier call, nothing on the final-answer channel, no decision.
C6_InvalidDecisionAborts ==
    \A c \in classifier_content :
        ~(c.json /\ c.agent_name \in AgentNames) =>
            /\ pc = "aborted"
            /\ error \in {"JSONDecodeError", "ValidationError"}
            /\ coordination_request = NoRequest
            /\ invoked = << >>
            /\ stages["agent"] = NoStage
            /\ calls = <<Call("classifier", None)>>
            /\ choice_content = << >>
            /\ final_message = None

\* the classifier answered with text that is not JSON
C6_Witness ==
    /\ classifier_content = Some(ClassifierContent(FALSE, "none", None))
    /\ pc = "aborted"
    /\ Len(messages) = 1

-----------------------------------------------------------------------------
(* Properties of the chat stream parser (SpecStream) *)

\* the line is [DONE], bare or after the "data: " prefix
IsSentinel(line) == line.body = "[DONE]" /\ line.prefix <= 1

\* the line is JSON text, bare or after the "data: " prefix
IsJson(line) == line.body = "json" /\ line.prefix <= 1

\* the JSON value has a text at choices[0].delta.content
HasFragment(v) ==
    /\ v.type = "dict"
    /\ v.choices = "list"
    /\ v.first = "dict"
    /\ v.delta = "dict"
    /\ v.content = "str"

\* the content fragment of a line, the empty text when it has none
FragmentOf(line) ==
    IF IsJson(line) /\ HasFragment(line.value) THEN line.value.text ELSE << >>

RECURSIVE FragmentsBeforeDone(_)
FragmentsBeforeDone(s) ==
    IF s = << >> \/ IsSentinel(Head(s)) THEN << >>
    ELSE FragmentOf(Head(s)) \o FragmentsBeforeDone(Tail(s))

IsPrefixOf(p, t) == Len(p) <= Len(t) /\ SubSeq(t, 1, Len(p)) = p

\* C3: the content the chat call returns is the concatenation, in arrival
\* order, of the content fragments of the lines before the first [DONE]
\* (of all lines without one), and so is the text forwarded to the agent
\* surface; at no time does the surface hold more than a prefix of it.
C3_ReturnsFragmentsBeforeDone ==
    /\ pc = "chat_done" =>
         /\ accumulated_content = FragmentsBeforeDone(stream)
         /\ stages["agent"].content = FragmentsBeforeDone(stream)
    /\ IsPrefixOf(stages["agent"].content, FragmentsBeforeDone(stream))
    /\ IsPrefixOf(accumulated_content, FragmentsBeforeDone(stream))

\* a fragment, the sentinel, and a fragment that must be left out
C3_Witness ==
    /\ pc = "chat_done"
    /\ stream = <<Json(1, JText(Hel)), Done(1), Json(1, JText(lo))>>
    /\ accumulated_content = Hel

\* the line is neither the sentinel nor JSON text
NotJson(line) == ~IsSentinel(line) /\ ~IsJson(line)

\* the parser takes the next line of the stream
Reads(line) ==
    /\ pc = "chat_stream"
    /\ line_no < Len(stream)
    /\ line_no' = line_no + 1
    /\ stream[line_no + 1] = line

\* the line read changed nothing and the loop goes on
Skipped ==
    /\ pc' = "chat_stream"
    /\ error' = error
    /\ accumulated_content' = accumulated_content
    /\ stages' = stages

C10_NonFragmentJsonIgnored ==
    [][\A line \in Lines :
          (Reads(line) /\ IsJson(line) /\ ~HasFragment(line.value)) => Skipped
      ]_vars

-----------------------------------------------------------------------------
(* Properties of the Message Adapter (SpecAdapter) *)

Prepared == pc \in {"classifier_call", "final_prepared"}

SuppliedPrompt ==
    IF pc = "classifier_call" THEN COORDINATION_REQUEST_SYSTEM_PROMPT
    ELSE FINAL_RESPONSE_SYSTEM_PROMPT

CarriesCustomContent(entry) ==
    entry.custom_content \/ entry.attachments \/ entry.state # "None"

\* C7 as claimed: no entry of the prepared list carries custom content of
\* any history message.
C7_NoCustomContentForwarded ==
    Prepared => \A k \in 1..Len(llm_messages) :
                    ~CarriesCustomContent(llm_messages[k])

\* C7 as amended: no entry prepared for a user message of the history
\* carries custom content (attachments or persisted state).
C7_UserCustomContentStripped ==
    Prepared =>
        \A i \in 1..Len(messages) :
            (messages[i].role = "user" /\ i + 1 <= Len(llm_messages)) =>
                ~CarriesCustomContent(llm_messages[i + 1])

\* a user message with attachments and no text was prepared
C7_Witness ==
    /\ Prepared
    /\ messages = <<WithAttachments("user", None), Plain("user", Some(hi))>>

\* C8: the prepared list has the system entry with the supplied prompt
\* first, then one entry for each history message, in the history's order.
C8_SystemFirstThenHistory ==
    Prepared =>
        /\ Len(llm_messages) = Len(messages) + 1
        /\ llm_messages[1] = Plain("system", Some(SuppliedPrompt))
        /\ \A i \in 1..Len(messages) :
              /\ llm_messages[i + 1].role = messages[i].role
              /\ OrEmpty(llm_messages[i + 1].content)
                   = OrEmpty(messages[i].content)

\* a history that starts with an assistant message and ends with a system
\* message
C8_Witness ==
    /\ pc = "final_prepared"
    /\ Len(messages) = 2
    /\ messages[1].role = "assistant"
    /\ messages[2].role = "system"
    /\ messages[2].content = Some(hi)

-----------------------------------------------------------------------------
(* Failures, channels and order of a run of handle_request (Spec) *)

TransportFailures == {"connect_error", "non_2xx", "broken"}

\* C11: a transport failure of the session creation or of the chat call
\* (connection error, non-2xx status, broken stream) leaves handle_request
\* as an error: after a failed creation no chat call is made; after either
\* failure the GPA gateway is not invoked, no synthesis call is made and
\* nothing is returned; no fragment of a non-2xx chat answer reaches the
\* agent's log surface.
C11_TransportFailurePropagates ==
    \A i \in DOMAIN http_log :
        http_log[i].status \in TransportFailures =>
            /\ pc = "aborted"
            /\ error = "httpx.HTTPError"
            /\ final_message = None
            /\ invoked = <<"UMS">>
            /\ CallsOf("gpa") = {}
            /\ CallsOf("synthesis") = {}
            /\ http_log[i].op = "create" => CallsOf("chat") = {}
            /\ http_log[i] = Http("chat", "non_2xx") =>
                 /\ line_no = 0
                 /\ accumulated_content = << >>
                 /\ stages["agent"].content = << >>

\* the chat call of a created session was answered with a non-2xx status
\* whose body holds a fragment
C11_Witness ==
    /\ pc = "aborted"
    /\ http_log = <<Http("create", "2xx"), Http("chat", "non_2xx")>>
    /\ stream = <<Json(1, JText(Hel)), Done(1)>>

\* what the two log surfaces hold: the routing text, and the agent's fragments
SurfacesHoldOwnText ==
    /\ stages["coordination"].content
         \in {<< >>, RoutingText(coordination_request)}
    /\ stages["agent"].content =
         IF invoked = <<"UMS">> THEN accumulated_content
         ELSE OrEmpty(agent_message)

\* C12: choice.append_content receives synthesis fragments only: it is empty
\* until the synthesis call is issued, every step that appends to it is a
\* read of a synthesis chunk and appends that chunk's fragment; the log
\* surfaces hold the routing text and the agent's fragments only, and no
\* step of the synthesis stage writes to a log surface.
C12_FinalChannelSynthesisOnly ==
    /\ [](/\ CallsOf("synthesis") = {} => choice_content = << >>
          /\ SurfacesHoldOwnText)
    /\ [][/\ choice_content' # choice_content =>
               /\ pc = "synthesis_stream"
               /\ chunk_no < Len(chunks)
               /\ choice_content' =
                    choice_content \o ChunkContent(chunks[chunk_no + 1])
               /\ stages' = stages
          /\ pc \in {"synthesis_call", "synthesis_stream"} =>
               stages' = stages]_vars

\* a run through UMS ended: the agent's fragments are on its surface, the
\* synthesis fragment is the only text of the final-answer channel
C12_Witness ==
    /\ pc = "done"
    /\ invoked = <<"UMS">>
    /\ stages["coordination"].content = RoutingText(coordination_request)
    /\ stages["agent"].content = Hel \o lo
    /\ choice_content = <<"A">>

\* the phase of the run: Idle, Routing, Delegating, Synthesizing, Done; a
\* run that an error left is past all of them
Phase(p) ==
    CASE p = "idle" -> 0
      [] p = "classifier_call" -> 1
      [] p \in {"create_call", "chat_open", "chat_stream", "chat_done",
                "gpa_call"} -> 2
      [] p \in {"synthesis_call", "synthesis_stream"} -> 3
      [] p = "done" -> 4
      [] OTHER -> 5

ClosedOnce(stage) ==
    stage.status = "closed" /\ stage.opens = 1 /\ stage.closes = 1

\* C13: a run passes Idle, Routing, Delegating, Synthesizing, Done in that
\* order, one phase at a time, never back (or is left by an error); the
\* coordination surface is opened once, written and closed before the
\* agent surface is opened; the agent surface is closed before the
\* synthesis call is issued; the classifier call, the gateway invocation
\* and the synthesis call each happen at most once, in that order.
C13_PhasesInOrder ==
    /\ [](/\ Cardinality(CallsOf("classifier")) <= 1
          /\ Len(invoked) <= 1
          /\ Cardinality(CallsOf("synthesis")) <= 1
          /\ \A i \in CallsOf("classifier") : i = 1
          /\ \A i \in CallsOf("synthesis") : i = Len(calls) /\ Len(invoked) = 1
          /\ Phase(pc) \in 1..4 => CallsOf("classifier") # {}
          /\ Phase(pc) \in 2..4 => Len(invoked) = 1
          /\ Phase(pc) \in 3..4 <=> CallsOf("synthesis") # {} /\ pc # "aborted"
          /\ \A n \in StageNames : stages[n].opens <= 1
          /\ stages["agent"].status # "unopened" =>
               /\ ClosedOnce(stages["coordination"])
               /\ stages["coordination"].content
                    = RoutingText(coordination_request)
          /\ CallsOf("synthesis") # {} => ClosedOnce(stages["agent"]))
    /\ [][\/ Phase(pc') = Phase(pc)
          \/ Phase(pc') = Phase(pc) + 1
          \/ pc' = "aborted"]_vars

\* a run went through all phases
C13_Witness ==
    /\ pc = "done"
    /\ calls = <<Call("classifier", None), Call("create", None),
                 Call("chat", Some("c3")), Call("synthesis", None)>>
    /\ ClosedOnce(stages["coordination"])
    /\ ClosedOnce(stages["agent"])

\* the content fragment of a synthesis chunk, the empty text when it has none
FragmentOfChunk(chunk) ==
    IF chunk.choices /\ chunk.content # None THEN OrEmpty(chunk.content)
    ELSE << >>

RECURSIVE ChunkFragments(_)
ChunkFragments(s) ==
    IF s = << >> THEN << >>
    ELSE FragmentOfChunk(Head(s)) \o ChunkFragments(Tail(s))

\* C14: in both streaming loops a fragment is forwarded in the iteration
\* that reads it: whenever the next line (chunk) is about to be read, the
\* text appended to the agent's log surface (to the final-answer channel)
\* is the text accumulated so far, which is the concatenation, in arrival
\* order, of the fragments of the lines (chunks) read so far.
C14_ForwardedAsAccumulated ==
    /\ invoked = <<"UMS">> => stages["agent"].content = accumulated_content
    /\ pc \in {"chat_stream", "chat_done"} =>
         accumulated_content = FragmentsBeforeDone(SubSeq(stream, 1, line_no))
    /\ choice_content = content
    /\ pc = "synthesis_stream" =>
         content = ChunkFragments(SubSeq(chunks, 1, chunk_no))

\* between the two chunks of a synthesis stream, after a chat stream of two
\* fragments
C14_Witness ==
    /\ pc = "synthesis_stream"
    /\ stream = <<Json(1, JText(Hel)), Json(1, JText(lo))>>
    /\ stages["agent"].content = Hel \o lo
    /\ Len(chunks) = 2
    /\ chunk_no = 1
    /\ choice_content = <<"A">>

-----------------------------------------------------------------------------
(* The content of the chat call (Spec) *)

UserIndexes(msgs) == { i \in 1..Len(msgs) : msgs[i].role = "user" }

\* the text of the last user-role message
LastUserText(msgs) ==
    LET last == CHOOSE i \in UserIndexes(msgs) :
                    \A j \in UserIndexes(msgs) : j <= i
    IN  OrEmpty(msgs[last].content)

Supplied(instructions) == instructions # None /\ instructions # Some(<< >>)

ContextDelimiter == "\n\nAdditional context: "

\* a base text, followed by the delimited block when instructions came
WithContext(text, instructions) ==
    IF Supplied(instructions)
    THEN text \o <<ContextDelimiter>> \o OrEmpty(instructions)
    ELSE text

\* C17: the base text of the content sent to the chat endpoint is the text
\* of the last user-role message of the history, whatever the role of the
\* history's final message.
C17_BaseIsLastUserText ==
    (CallsOf("chat") # {} /\ UserIndexes(messages) # {}) =>
        user_content = WithContext(LastUserText(messages),
                                   coordination_request.additional_instructions)

\* C18: the content of the chat call holds the "Additional context" block
\* exactly when the decision supplied non-empty instructions: without them
\* it is the base text taken from the history, unchanged; with them it is
\* that text, the delimiter, and the instructions, and nothing else.
C18_ContextBlockIffInstructions ==
    CallsOf("chat") # {} =>
        LET base == OrEmpty(messages[Len(messages)].content)
            instructions == coordination_request.additional_instructions
        IN  /\ Supplied(instructions) <=>
                 \E k \in 1..Len(user_content) :
                     user_content[k] = ContextDelimiter
            /\ ~Supplied(instructions) => user_content = base
            /\ Supplied(instructions) =>
                 user_content = base \o <<ContextDelimiter>>
                                     \o OrEmpty(instructions)

\* a chat call whose decision came with instructions
C18_Witness ==
    /\ CallsOf("chat") # {}
    /\ coordination_request.additional_instructions = Some(<<"be brief">>)
    /\ user_content = hi \o <<ContextDelimiter, "be brief">>

-----------------------------------------------------------------------------
(* The message list of the synthesis call (SpecAdapter) *)

\* the two sections: the original content, then the agent's raw answer
Composite(original, answer) ==
    <<"## Original User Request\n">> \o original
    \o <<"\n\n## Agent Response\n">> \o answer

\* C19: the message list of the synthesis call is the Message Adapter's
\* output for the synthesis prompt, except that the content of its last
\* entry is the composite of that entry's original content and the agent's
\* answer; the system entry and every earlier entry are unchanged, for
\* every history, the empty one included.
C19_OnlyLastEntryReplaced ==
    pc = "augmented" =>
        LET prepared == prepare_messages(messages, FINAL_RESPONSE_SYSTEM_PROMPT)
            n == Len(prepared)
        IN  /\ Len(llm_messages) = n
            /\ llm_messages[1] = SystemEntry(FINAL_RESPONSE_SYSTEM_PROMPT)
            /\ \A k \in 1..(n - 1) : llm_messages[k] = prepared[k]
            /\ llm_messages[n] =
                 [prepared[n] EXCEPT !.content =
                     Some(Composite(OrEmpty(prepared[n].content),
                                    OrEmpty(agent_message)))]

-----------------------------------------------------------------------------
(* The returned message (SpecSynthesis) *)

\* C20: when the run is done, the content of the message handle_request
\* returns is the concatenation, in arrival order, of the content fragments
\* of all chunks of the synthesis stream, and it is exactly the text that
\* was appended to the final-answer channel.
C20_ReturnsAllSynthesisFragments ==
    pc = "done" =>
        /\ final_message = Some(ChunkFragments(chunks))
        /\ choice_content = ChunkFragments(chunks)

\* two different fragments arrived
C20_Witness ==
    /\ pc = "done"
    /\ chunks = <<Chunk(TRUE, Some(<<"A">>)), Chunk(TRUE, Some(<<"B">>))>>
    /\ final_message = Some(<<"A", "B">>)
    /\ choice_content = <<"A", "B">>

-----------------------------------------------------------------------------
(* The session over the turns of a conversation (SpecTurns) *)

EarlierTurns == 1..Len(turn_log)

CreatingRunsCompleted ==
    \A k \in EarlierTurns :
        turn_log[k].posts > 0 => turn_log[k].ended = "done"

CreatedAndKept ==
    { k \in EarlierTurns : /\ turn_log[k].posts > 0
                           /\ turn_log[k].state # None
                           /\ turn_log[k].kept }

\* C16: the id a creation call returns is the state given to the reply
\* (under the key ums_conversation_id), and a later run of the UMS gateway
\* whose history holds that reply resolves exactly that id, issues its chat
\* call to it and makes no creation call.
C16_SessionIdRoundTrip ==
    /\ (CallsOf("create") # {} /\ conversation_id # None) =>
          /\ choice_state = conversation_id
          /\ Reply.custom_content
          /\ Some(Reply.state) = conversation_id
    /\ \A k \in CreatedAndKept :
          /\ \E i \in 1..Len(messages) :
                /\ CarriesId(messages[i])
                /\ Some(messages[i].state) = turn_log[k].state
          /\ invoked = <<"UMS">> =>
                /\ conversation_id = turn_log[k].state
                /\ CallsOf("create") = {}
                /\ \A j \in CallsOf("chat") : calls[j].id = turn_log[k].state

\* the second turn chats to the session the first turn created
C16_Witness ==
    /\ Len(turn_log) = 1
    /\ turn_log[1] = [posts |-> 1, ended |-> "done", state |-> Some("c3"),
                      kept |-> TRUE]
    /\ pc = "chat_stream"
    /\ calls = <<Call("classifier", None), Call("chat", Some("c3"))>>

-----------------------------------------------------------------------------
(* The persisted state of the reply (Spec) *)

SessionCreated == \E i \in DOMAIN http_log : http_log[i] = Http("create", "2xx")

ChatFailed ==
    \E i \in DOMAIN http_log :
        http_log[i].op = "chat" /\ http_log[i].status \in TransportFailures

-----------------------------------------------------------------------------
(* Framing of the chat stream lines (SpecStream) *)

\* the same line with the "data: " prefix added or removed
OtherFraming(line) == [line EXCEPT !.prefix = 1 - @]

\* the line read ended the stream and nothing was accumulated
Terminated ==
    /\ pc' = "chat_done"
    /\ error' = error
    /\ accumulated_content' = accumulated_content
    /\ stages' = stages

\* the text was accumulated and forwarded, and the loop goes on
Accumulated(text) ==
    /\ pc' = "chat_stream"
    /\ error' = error
    /\ accumulated_content' = accumulated_content \o text
    /\ stages' = append_content(stages, "agent", text)

\* C22: the parser treats a line the same with or without the "data: "
\* prefix: [DONE] ends the stream, a JSON content event is accumulated and
\* forwarded, an empty line is skipped and the stream goes on, whether the
\* line is bare or prefixed; any other line has the same outcome in both
\* framings.
C22_PrefixMakesNoDifference ==
    [][\A line \in Lines :
          (Reads(line) /\ line.prefix <= 1) =>
              /\ line.body = "[DONE]" => Terminated
              /\ (line.body = "json" /\ HasFragment(line.value)) =>
                     Accumulated(line.value.text)
              /\ line.body = "empty" => Skipped
              /\ LineOutcome(line) = LineOutcome(OtherFraming(line))
      ]_vars

\* a bare content event, an empty line and a bare [DONE] were read
C22_Witness ==
    /\ pc = "chat_done"
    /\ stream = <<Json(0, JText(Hel)), Blank, Done(0)>>
    /\ line_no = 3
    /\ accumulated_content = Hel
    /\ stages["agent"].content = Hel

====
